---- MODULE Spec2Model ----
(***************************************************************************)
(* A model of dlcutils/networks.py: the four network classes Network,      *)
(* ERNetwork, BANetwork and WSNetwork.                                     *)
(*                                                                         *)
(* Each class has a specification of its own (Spec for Network, SpecER,    *)
(* SpecBA, SpecBAOps, SpecWS).  The variables carry the names of the       *)
(* attributes in the source; an attribute a class does not have keeps the  *)
(* value None under that class's specification.                            *)
(*                                                                         *)
(* Python's None is the empty tuple <<>>; a value v that may also be None  *)
(* is held as <<v>>.  Edge weights are exact rationals [num, den] in       *)
(* lowest terms: the rounding of the floating point operations is left     *)
(* out, so "sums to 1.0 within tolerance" reads "sums to 1".               *)
(* Probabilities (p, b) are percentages 0..100.                            *)
(***************************************************************************)
EXTENDS Integers, Sequences, FiniteSets, TLC

VARIABLES
    n,            \* number of nodes asked for (all classes)
    k,            \* BANetwork.k, WSNetwork.k
    p,            \* ERNetwork.p
    m,            \* ERNetwork.m
    b,            \* WSNetwork.b
    node_list,    \* Network.node_list
    edge_list,    \* Network.edge_list
    nodes,        \* ERNetwork.nodes, BANetwork.nodes, WSNetwork.nodes
    edges,        \* Network.edges (node -> neighbor -> weight); the edge list of the others
    poss_edges,   \* ERNetwork.poss_edges
    focus_node,   \* Network.focus_node
    next_focus,   \* Network.next_focus
    focus_edge,   \* Network.focus_edge
    size,         \* BANetwork.size
    degrees,      \* BANetwork.degrees
    neighbors,    \* WSNetwork.neighbors
    node,         \* WSNetwork.rewire: index of the node of the outer loop
    candidates,   \* WSNetwork.rewire: the candidates the inner loop has still to visit
    pc,           \* position of the constructor that is running ("done" once it returned)
    op,           \* the last call made: [name, arg]
    raised,       \* "none", or the exception the last call raised
    walked,       \* the edge (old focus, new focus) traversed, when the last call was a successful step()
    updates       \* number of successful update_focus_weights() calls so far

vars == <<n, k, p, m, b, node_list, edge_list, nodes, edges, poss_edges,
          focus_node, next_focus, focus_edge, size, degrees, neighbors,
          node, candidates, pc, op, raised, walked, updates>>

(***************************************************************************)
(* Bounds of the model.                                                    *)
(***************************************************************************)
MaxN == 3
MaxUpdates == 2
MaxM == 3
MaxSize == 5
MaxRing == 5

(***************************************************************************)
(* Python values.                                                          *)
(***************************************************************************)
None == <<>>

Some(v) == <<v>>

Val(o) == o[1]

\* An argument of set_focus(node=None): None, the string "next", or an int.
ArgNone == [tag |-> "None", val |-> 0]

ArgNext == [tag |-> "str", val |-> 0]

ArgInt(x) == [tag |-> "int", val |-> x]

\* Python truth value of such an argument: None and 0 are false, a
\* non-empty string and a non-zero int are true.
Truthy(a) == \/ a.tag = "str"
             \/ a.tag = "int" /\ a.val # 0

Call(name, arg) == [name |-> name, arg |-> arg]

Range(s) == {s[i] : i \in DOMAIN s}

(***************************************************************************)
(* Exact rational arithmetic for the edge weights.                         *)
(***************************************************************************)
RECURSIVE GCD(_, _)
GCD(x, y) == IF y = 0 THEN x ELSE GCD(y, x % y)

Rat(num, den) == LET g == GCD(num, den) IN [num |-> num \div g, den |-> den \div g]

RatAdd(x, y) == Rat(x.num * y.den + y.num * x.den, x.den * y.den)

RatDiv(x, y) == Rat(x.num * y.den, x.den * y.num)

RatLess(x, y) == x.num * y.den < y.num * x.den

RatOne == Rat(1, 1)

RatZero == Rat(0, 1)

\* sum(ego.values())
RECURSIVE SumOver(_, _)
SumOver(ego, S) ==
    IF S = {} THEN RatZero
    ELSE LET x == CHOOSE y \in S : TRUE
         IN RatAdd(ego[x], SumOver(ego, S \ {x}))

RatSum(ego) == SumOver(ego, DOMAIN ego)

(***************************************************************************)
(* class Network                                                           *)
(***************************************************************************)
\* The attributes of a Network that its methods read and write.
NetSelf == [n |-> n, node_list |-> node_list, edges |-> edges,
            focus_node |-> focus_node, next_focus |-> next_focus,
            focus_edge |-> focus_edge]

\* What a call leaves behind: the object and the exception raised, if any.
Outcome(self, exc) == [self |-> self, raised |-> exc]

\* _make_nodes: list(range(1, n+1))
make_nodes(nn) == [i \in 1..nn |-> i]

\* _make_edges, edge_list: list(it.product(node_list, node_list))
make_edge_list(nl) ==
    LET len == Len(nl)
    IN [i \in 1..(len * len) |-> <<nl[((i - 1) \div len) + 1], nl[((i - 1) % len) + 1]>>]

\* _make_edges, edges: every node gets {nbr: 1/n for nbr in node_list}
make_edges(nn, nl) == [x \in Range(nl) |-> [nbr \in Range(nl) |-> Rat(1, nn)]]

\* set_focus(node): the outcomes of the call on self.
set_focus(self, arg) ==
    IF ~Truthy(arg)
    THEN {Outcome([self EXCEPT !.focus_node = Some(x),
                               !.next_focus = None,
                               !.focus_edge = None], "none")
            : x \in Range(self.node_list)}
    ELSE IF arg.tag = "str"
    THEN {Outcome([self EXCEPT !.focus_node = self.next_focus,
                               !.next_focus = None,
                               !.focus_edge = None], "none")}
    ELSE IF arg.val \notin Range(self.node_list)
    THEN {Outcome(self, "ValueError")}
    ELSE {Outcome([self EXCEPT !.focus_node = Some(arg.val),
                               !.next_focus = None,
                               !.focus_edge = None], "none")}

\* rd.choices(nbrs, weights)[0]: any neighbor of positive weight.
choices(ego) == {nbr \in DOMAIN ego : RatLess(RatZero, ego[nbr])}

\* select_focus_edge() that records the edge back to front.
select_focus_edge_reversed(self) ==
    IF self.focus_node = None
    THEN {Outcome(self, "KeyError")}
    ELSE LET ego == self.edges[Val(self.focus_node)]
         IN {Outcome([self EXCEPT !.next_focus = Some(nf),
                                  !.focus_edge = <<nf, Val(self.focus_node)>>], "none")
               : nf \in choices(ego)}

\* select_focus_edge(): edges[None] raises KeyError.
select_focus_edge(self) ==
    IF self.focus_node = None
    THEN {Outcome(self, "KeyError")}
    ELSE LET ego == self.edges[Val(self.focus_node)]
         IN {Outcome([self EXCEPT !.next_focus = Some(nf),
                                  !.focus_edge = <<Val(self.focus_node), nf>>], "none")
               : nf \in choices(ego)}

\* update_focus_weights() that divides by the total taken before the increase.
reinforce_stale_total(ego, nf, nn) ==
    LET total_weights == RatSum(ego)
        bumped == [ego EXCEPT ![nf] = RatAdd(ego[nf], Rat(1, nn))]
    IN [neighbor \in DOMAIN bumped |-> RatDiv(bumped[neighbor], total_weights)]

\* The body of update_focus_weights() once both keys are known to exist.
reinforce(ego, nf, nn) ==
    LET bumped == [ego EXCEPT ![nf] = RatAdd(ego[nf], Rat(1, nn))]
        total_weights == RatSum(bumped)
    IN [neighbor \in DOMAIN bumped |-> RatDiv(bumped[neighbor], total_weights)]

\* update_focus_weights(): edges[None] and ego[None] raise KeyError before
\* anything is written.
update_focus_weights(self) ==
    IF self.focus_node = None
    THEN {Outcome(self, "KeyError")}
    ELSE IF self.next_focus = None
    THEN {Outcome(self, "KeyError")}
    ELSE LET f == Val(self.focus_node)
         IN {Outcome([self EXCEPT !.edges[f] =
                         reinforce(self.edges[f], Val(self.next_focus), self.n)], "none")}

\* step(): select_focus_edge(), then set_focus("next").
step(self) ==
    UNION {IF o.raised # "none" THEN {o} ELSE set_focus(o.self, ArgNext)
             : o \in select_focus_edge(self)}

\* Attributes no Network has.
NetIdle == <<k, p, m, b, nodes, poss_edges, size, degrees, neighbors, node, candidates>>

\* Network(n), n >= 1: the state after __init__.
InitNet ==
    /\ n \in 1..MaxN
    /\ node_list = make_nodes(n)
    /\ edge_list = make_edge_list(node_list)
    /\ edges = make_edges(n, node_list)
    /\ focus_node = None
    /\ next_focus = None
    /\ focus_edge = None
    /\ k = None /\ p = None /\ m = None /\ b = None
    /\ nodes = None /\ poss_edges = None /\ size = None /\ degrees = None
    /\ neighbors = None /\ node = None /\ candidates = None
    /\ pc = "done"
    /\ op = Call("__init__", ArgNone)
    /\ raised = "none"
    /\ walked = None
    /\ updates = 0

\* The call leaves the object as o.self.
NetBecomes(o) ==
    /\ edges' = o.self.edges
    /\ focus_node' = o.self.focus_node
    /\ next_focus' = o.self.next_focus
    /\ focus_edge' = o.self.focus_edge
    /\ raised' = o.raised
    /\ UNCHANGED <<n, node_list, edge_list, pc>>
    /\ UNCHANGED NetIdle

\* The arguments set_focus is called with: None, "next", and the ints -1..n+1.
FocusArgs == {ArgNone, ArgNext} \cup {ArgInt(x) : x \in (0 - 1)..(n + 1)}

SetFocus ==
    \E arg \in FocusArgs :
        \E o \in set_focus(NetSelf, arg) :
            /\ NetBecomes(o)
            /\ op' = Call("set_focus", arg)
            /\ walked' = None
            /\ UNCHANGED updates

SelectFocusEdge ==
    \E o \in select_focus_edge(NetSelf) :
        /\ NetBecomes(o)
        /\ op' = Call("select_focus_edge", ArgNone)
        /\ walked' = None
        /\ UNCHANGED updates

UpdateFocusWeights ==
    \E o \in update_focus_weights(NetSelf) :
        /\ o.raised = "none" => updates < MaxUpdates
        /\ NetBecomes(o)
        /\ op' = Call("update_focus_weights", ArgNone)
        /\ updates' = IF o.raised = "none" THEN updates + 1 ELSE updates
        /\ walked' = None

Step ==
    \E o \in step(NetSelf) :
        /\ NetBecomes(o)
        /\ op' = Call("step", ArgNone)
        /\ walked' = IF o.raised = "none" /\ o.self.focus_node # None
                     THEN <<Val(focus_node), Val(o.self.focus_node)>>
                     ELSE None
        /\ UNCHANGED updates

NextNet == SetFocus \/ SelectFocusEdge \/ UpdateFocusWeights \/ Step

Spec == InitNet /\ [][NextNet]_vars

(***************************************************************************)
(* class ERNetwork                                                         *)
(***************************************************************************)
\* Python truth value of an optional number: None and 0 are false.
TruthyOpt(o) == o # None /\ Val(o) # 0

\* list(it.combinations(nodes, 2)): the pairs (nl[i], nl[j]), i < j, in
\* lexicographic order of the positions.
RECURSIVE combinations_from(_, _, _)
combinations_from(nl, i, j) ==
    IF i >= Len(nl) THEN <<>>
    ELSE IF j > Len(nl) THEN combinations_from(nl, i + 1, i + 2)
    ELSE <<<<nl[i], nl[j]>>>> \o combinations_from(nl, i, j + 1)

combinations(nl) == combinations_from(nl, 1, 2)

\* [edge for edge, incl in zip(poss, presence) if incl]
RECURSIVE included(_, _)
included(poss, presence) ==
    IF poss = <<>> THEN <<>>
    ELSE (IF Head(presence) = 1 THEN <<Head(poss)>> ELSE <<>>)
         \o included(Tail(poss), Tail(presence))

\* np.random.choice([0, 1], size, p=[not_p, p]): a value of probability 0
\* is never drawn.
presence_draws(len, pp) ==
    LET not_p == 100 - pp
        drawn == {x \in {0, 1} : IF x = 1 THEN pp > 0 ELSE not_p > 0}
    IN [1..len -> drawn]

\* connect_p(): the edge lists it may leave in self.edges.
connect_p(poss, pp) == {included(poss, presence) : presence \in presence_draws(Len(poss), pp)}

\* rd.choices(population, k=mm) without replacement of the drawn pairs.
connect_m_distinct(poss, mm) ==
    {es \in [1..mm -> Range(poss)] : \A i \in 1..mm : \A j \in 1..mm : es[i] = es[j] => i = j}

\* connect_m(): rd.choices(poss_edges, k=m) draws m pairs with replacement.
connect_m(poss, mm) == [1..mm -> Range(poss)]

\* An ERNetwork on which __init__ has set nothing yet.
ERBlank == [n |-> None, p |-> None, m |-> None, nodes |-> None, edges |-> None,
            poss_edges |-> None]

\* What the constructor leaves behind: the attributes, the exception raised
\* if any, and which of connect_p / connect_m it called.
EROutcome(self, exc, mode) == [self |-> self, raised |-> exc, mode |-> mode]

\* ERNetwork.__init__(n, p, m)
ERNetwork_init(nn, pp, mm) ==
    IF (TruthyOpt(pp) /\ TruthyOpt(mm)) \/ (~TruthyOpt(pp) /\ ~TruthyOpt(mm))
    THEN {EROutcome(ERBlank, "ValueError", "none")}
    ELSE LET nl == [i \in 1..nn |-> i]
             poss == combinations(nl)
             self == [n |-> Some(nn), p |-> pp, m |-> mm, nodes |-> nl,
                      edges |-> None, poss_edges |-> poss]
         IN IF TruthyOpt(pp)
            THEN {EROutcome([self EXCEPT !.edges = es], "none", "connect_p")
                    : es \in connect_p(poss, Val(pp))}
            ELSE IF poss = <<>>
            THEN {EROutcome(self, "IndexError", "connect_m")}
            ELSE {EROutcome([self EXCEPT !.edges = es], "none", "connect_m")
                    : es \in connect_m(poss, Val(mm))}

\* Attributes no ERNetwork has.
ERIdle == <<k, b, node_list, edge_list, focus_node, next_focus, focus_edge,
            size, degrees, neighbors, node, candidates, walked, updates>>

\* The probabilities the constructor is called with: None, 0, 1/2 and 1.
ERProbabilities == {None, Some(0), Some(50), Some(100)}

\* The edge counts the constructor is called with: None and 0..MaxM.
ERCounts == {None} \cup {Some(x) : x \in 0..MaxM}

\* ERNetwork(n, p, m) is about to run: n, p and m hold the arguments.
InitER ==
    /\ n \in 1..MaxN
    /\ p \in ERProbabilities
    /\ m \in ERCounts
    /\ nodes = None /\ edges = None /\ poss_edges = None
    /\ k = None /\ b = None /\ node_list = None /\ edge_list = None
    /\ focus_node = None /\ next_focus = None /\ focus_edge = None
    /\ size = None /\ degrees = None /\ neighbors = None
    /\ node = None /\ candidates = None /\ walked = None /\ updates = 0
    /\ pc = "init"
    /\ op = Call("none", "none")
    /\ raised = "none"

ERInit ==
    /\ pc = "init"
    /\ \E o \in ERNetwork_init(n, p, m) :
        /\ nodes' = o.self.nodes
        /\ edges' = o.self.edges
        /\ poss_edges' = o.self.poss_edges
        /\ raised' = o.raised
        /\ op' = Call("__init__", o.mode)
    /\ pc' = "done"
    /\ UNCHANGED <<n, p, m>>
    /\ UNCHANGED ERIdle

NextER == ERInit

SpecER == InitER /\ [][NextER]_vars

(***************************************************************************)
(* class BANetwork                                                         *)
(***************************************************************************)
\* make_edges that forgets to count the edge at the neighbor's end.
RECURSIVE BA_make_edges_one_end(_, _, _)
BA_make_edges_one_end(self, v, targets) ==
    IF targets = <<>> THEN self
    ELSE LET neighbor == Head(targets)
             appended == [self EXCEPT !.edges = Append(self.edges, <<v, neighbor>>)]
             counted == [appended EXCEPT !.degrees[v] = appended.degrees[v] + 1]
         IN BA_make_edges_one_end(counted, v, Tail(targets))

\* make_edges(node, targets): one edge (node, neighbor) per target, in
\* order, each counted in the degree of both ends.
RECURSIVE BA_make_edges(_, _, _)
BA_make_edges(self, v, targets) ==
    IF targets = <<>> THEN self
    ELSE LET neighbor == Head(targets)
             appended == [self EXCEPT !.edges = Append(self.edges, <<v, neighbor>>)]
             counted1 == [appended EXCEPT !.degrees[v] = appended.degrees[v] + 1]
             counted2 == [counted1 EXCEPT !.degrees[neighbor] = counted1.degrees[neighbor] + 1]
         IN BA_make_edges(counted2, v, Tail(targets))

\* list(it.chain.from_iterable(edges)): both ends of every edge, in order.
chain_from_iterable(es) ==
    [i \in 1..(2 * Len(es)) |-> es[(i + 1) \div 2][IF i % 2 = 1 THEN 1 ELSE 2]]

\* The number of positions of s that hold v.
Count(s, v) == Cardinality({i \in DOMAIN s : s[i] = v})

\* rd.sample(population, kk): the values at kk distinct positions of the
\* population, in any order.  Positions holding equal values are
\* interchangeable, so these are the sequences of kk values that use no
\* value more often than the population holds it.
sample(population, kk) ==
    {t \in [1..kk -> Range(population)] :
        \A v \in Range(population) : Count(t, v) <= Count(population, v)}

\* The new node: size += 1, nodes.append(size), degrees[size] = 0.
BA_new_node(self) ==
    [self EXCEPT !.size = self.size + 1,
                 !.nodes = Append(self.nodes, self.size + 1),
                 !.degrees = (self.size + 1 :> 0) @@ self.degrees]

\* add_first_node() that never refuses.
add_first_node_unguarded(self) ==
    {Outcome(BA_make_edges(BA_new_node(self), self.size + 1, self.nodes), "none")}

\* add_first_node()
add_first_node(self) ==
    IF self.size # self.k
    THEN {Outcome(self, "ValueError")}
    ELSE {Outcome(BA_make_edges(BA_new_node(self), self.size + 1, self.nodes), "none")}

\* add_node(); rd.sample raises ValueError when asked for more values than
\* the population holds, after the node was added.
add_node(self) ==
    IF self.size = self.k
    THEN {Outcome(self, "ValueError")}
    ELSE LET grown == BA_new_node(self)
             cands == chain_from_iterable(self.edges)
         IN IF self.k > Len(cands)
            THEN {Outcome(grown, "ValueError")}
            ELSE {Outcome(BA_make_edges(grown, grown.size, targets), "none")
                    : targets \in sample(cands, self.k)}

\* The attributes of a BANetwork.
BASelf == [n |-> n, k |-> k, nodes |-> nodes, size |-> size, degrees |-> degrees,
           edges |-> edges]

\* __init__ up to the call of add_first_node(): k seed nodes of degree 0.
BA_seed(nn, kk) ==
    [n |-> nn, k |-> kk, nodes |-> [i \in 1..kk |-> i], size |-> kk,
     degrees |-> [i \in 1..kk |-> 0], edges |-> <<>>]

\* Attributes no BANetwork has.
BAIdle == <<p, m, b, node_list, edge_list, poss_edges, focus_node, next_focus,
            focus_edge, neighbors, node, candidates, walked, updates>>

BAIdleInit ==
    /\ p = None /\ m = None /\ b = None /\ node_list = None /\ edge_list = None
    /\ poss_edges = None /\ focus_node = None /\ next_focus = None
    /\ focus_edge = None /\ neighbors = None /\ node = None /\ candidates = None
    /\ walked = None /\ updates = 0

\* The call leaves the object as o.self.
BABecomes(o) ==
    /\ nodes' = o.self.nodes
    /\ size' = o.self.size
    /\ degrees' = o.self.degrees
    /\ edges' = o.self.edges
    /\ raised' = o.raised
    /\ UNCHANGED <<n, k>>
    /\ UNCHANGED BAIdle

\* BANetwork(n, k), 1 <= k < n, is about to run.
InitBA ==
    /\ n \in 2..MaxSize
    /\ k \in 1..(n - 1)
    /\ nodes = None /\ size = None /\ degrees = None /\ edges = None
    /\ BAIdleInit
    /\ pc = "init"
    /\ op = Call("none", "none")
    /\ raised = "none"

\* __init__, lines 175-180.
BASeed ==
    /\ pc = "init"
    /\ BABecomes(Outcome(BA_seed(n, k), "none"))
    /\ op' = Call("__init__", "seed")
    /\ pc' = "add_first_node"

\* __init__, line 181.
BAAddFirstNode ==
    /\ pc = "add_first_node"
    /\ \E o \in add_first_node(BASelf) :
        /\ BABecomes(o)
        /\ pc' = IF o.raised = "none" THEN "make_network" ELSE "failed"
    /\ op' = Call("add_first_node", "__init__")

\* make_network(): one turn of the loop.
BAMakeNetwork ==
    /\ pc = "make_network"
    /\ size < n
    /\ \E o \in add_node(BASelf) :
        /\ BABecomes(o)
        /\ pc' = IF o.raised = "none" THEN "make_network" ELSE "failed"
    /\ op' = Call("add_node", "make_network")

\* make_network() and __init__ return.
BAReturn ==
    /\ pc = "make_network"
    /\ ~(size < n)
    /\ pc' = "done"
    /\ op' = Call("__init__", "return")
    /\ UNCHANGED <<n, k, nodes, size, degrees, edges, raised>>
    /\ UNCHANGED BAIdle

NextBA == BASeed \/ BAAddFirstNode \/ BAMakeNetwork \/ BAReturn

SpecBA == InitBA /\ [][NextBA]_vars

\* The methods called directly, in any order, on an object in the seed
\* state that lines 175-180 build, which is the state __init__ calls
\* add_first_node() in.
InitBAOps ==
    /\ n = MaxSize
    /\ k \in 1..(n - 1)
    /\ nodes = BA_seed(n, k).nodes
    /\ size = BA_seed(n, k).size
    /\ degrees = BA_seed(n, k).degrees
    /\ edges = BA_seed(n, k).edges
    /\ BAIdleInit
    /\ pc = "seed"
    /\ op = Call("__init__", "seed")
    /\ raised = "none"

CallAddFirstNode ==
    \E o \in add_first_node(BASelf) :
        /\ BABecomes(o)
        /\ op' = Call("add_first_node", "caller")
        /\ UNCHANGED pc

CallAddNode ==
    \E o \in add_node(BASelf) :
        /\ o.self.size <= MaxSize
        /\ BABecomes(o)
        /\ op' = Call("add_node", "caller")
        /\ UNCHANGED pc

NextBAOps == CallAddFirstNode \/ CallAddNode

SpecBAOps == InitBAOps /\ [][NextBAOps]_vars

(***************************************************************************)
(* class WSNetwork                                                         *)
(***************************************************************************)
Min(x, y) == IF x <= y THEN x ELSE y

\* s[lo:hi] for 0 <= lo: the slice stops at the end of the list.
Slice(s, lo, hi) == SubSeq(s, lo + 1, Min(hi, Len(s)))

\* s[-cnt:]: the last cnt elements; s[-0:] is s[0:], the whole list.
LastSlice(s, cnt) == IF cnt = 0 THEN s ELSE SubSeq(s, Len(s) - cnt + 1, Len(s))

\* list.remove(x): s without the first occurrence of x (x is in s).
RECURSIVE Remove(_, _)
Remove(s, x) ==
    IF s = <<>> THEN <<>>
    ELSE IF Head(s) = x THEN Tail(s)
    ELSE <<Head(s)>> \o Remove(Tail(s), x)

\* Stable insertion of x into a list sorted by key, a function on its elements.
RECURSIVE InsertBy(_, _, _)
InsertBy(key, s, x) ==
    IF s = <<>> THEN <<x>>
    ELSE IF key[x] < key[Head(s)] THEN <<x>> \o s
    ELSE <<Head(s)>> \o InsertBy(key, Tail(s), x)

\* sorted(s, key=key): a stable sort.
RECURSIVE SortedBy(_, _)
SortedBy(key, s) ==
    IF s = <<>> THEN <<>>
    ELSE InsertBy(key, SortedBy(key, SubSeq(s, 1, Len(s) - 1)), s[Len(s)])

\* self.neighbors[node].sort(): the elements are their own keys.
Identity(s) == [x \in Range(s) |-> x]

\* key=lambda edge: edge[0]
First(s) == [edge \in Range(s) |-> edge[1]]

\* make_ring(): one turn of the loop, for node v.
ring_neighbors(padded_nodes, v, kk) ==
    Remove(Slice(padded_nodes, v - 1, v + kk), v)

\* make_ring(): the nodes of todo are still to be visited.
RECURSIVE make_ring(_, _)
make_ring(self, todo) ==
    IF todo = <<>> THEN self
    ELSE LET per_side == self.k \div 2
             l_padding == LastSlice(self.nodes, per_side)
             r_padding == Slice(self.nodes, 0, per_side)
             padded_nodes == l_padding \o self.nodes \o r_padding
             v == Head(todo)
             nbrs == ring_neighbors(padded_nodes, v, self.k)
             neighbor_pairs == [i \in DOMAIN nbrs |-> <<v, nbrs[i]>>]
         IN make_ring([self EXCEPT !.edges = self.edges \o neighbor_pairs,
                                   !.neighbors = (v :> nbrs) @@ self.neighbors],
                      Tail(todo))

\* A WSNetwork on which __init__ has set nothing yet.
WSBlank == [n |-> None, k |-> None, b |-> None, nodes |-> None, edges |-> None,
            neighbors |-> None]

\* WSNetwork.__init__(n, k, b) up to the call of rewire().
WSNetwork_init(nn, kk, bb) ==
    IF kk % 2 # 0 THEN Outcome(WSBlank, "ValueError")
    ELSE IF bb < 0 \/ bb > 100 THEN Outcome(WSBlank, "ValueError")
    ELSE IF nn <= kk THEN Outcome(WSBlank, "ValueError")
    ELSE LET nl == [i \in 1..nn |-> i]
             self == [n |-> nn, k |-> kk, b |-> bb, nodes |-> nl, edges |-> <<>>,
                      neighbors |-> <<>>]
         IN Outcome(make_ring(self, nl), "none")

\* rd.choices([True, False], weights=[b, not_b])[0]: an answer of weight 0
\* is never drawn.
rewire_draws(bb) ==
    LET not_b == 100 - bb
    IN {x \in BOOLEAN : IF x THEN bb > 0 ELSE not_b > 0}

\* find_new_neighbor(i, j); rd.choice raises IndexError on an empty list.
find_new_neighbor(self, i, j) ==
    LET taken == Range(self.neighbors[i]) \cup {i}
        options == SelectSeq(self.nodes, LAMBDA x : x \notin taken)
    IN IF options = <<>>
       THEN {Outcome(self, "IndexError")}
       ELSE {Outcome([self EXCEPT
                        !.neighbors[i] = Append(Remove(self.neighbors[i], j), new_neighbor),
                        !.edges = Append(Remove(self.edges, <<i, j>>), <<i, new_neighbor>>)],
                     "none")
               : new_neighbor \in Range(options)}

\* rewire(): candidates = [nbr for nbr in neighbors if node < nbr]
rewire_candidates(self, v) == SelectSeq(self.neighbors[v], LAMBDA nbr : v < nbr)

\* The attributes of a WSNetwork.
WSSelf == [n |-> n, k |-> k, b |-> b, nodes |-> nodes, edges |-> edges,
           neighbors |-> neighbors]

\* Attributes no WSNetwork has.
WSIdle == <<p, m, node_list, edge_list, poss_edges, focus_node, next_focus,
            focus_edge, size, degrees, walked, updates>>

\* The values of b the constructor is called with: 0, 1/2, 1, and the
\* out-of-range -1/2 and 3/2.
WSProbabilities == {0 - 50, 0, 50, 100, 150}

\* WSNetwork(n, k, b) is about to run: n, k and b hold the arguments.
InitWS ==
    /\ n \in 1..MaxRing
    /\ k \in 0..MaxRing
    /\ b \in WSProbabilities
    /\ nodes = None /\ edges = None /\ neighbors = None
    /\ node = None /\ candidates = None
    /\ p = None /\ m = None /\ node_list = None /\ edge_list = None
    /\ poss_edges = None /\ focus_node = None /\ next_focus = None
    /\ focus_edge = None /\ size = None /\ degrees = None
    /\ walked = None /\ updates = 0
    /\ pc = "init"
    /\ op = Call("none", "none")
    /\ raised = "none"

\* The object becomes o.self.
WSBecomes(o) ==
    /\ nodes' = o.self.nodes
    /\ edges' = o.self.edges
    /\ neighbors' = o.self.neighbors
    /\ raised' = o.raised
    /\ UNCHANGED <<n, k, b>>
    /\ UNCHANGED WSIdle

\* __init__, lines 227-239: the checks and make_ring().
WSInit ==
    /\ pc = "init"
    /\ LET o == WSNetwork_init(n, k, b)
       IN /\ WSBecomes(o)
          /\ pc' = IF o.raised = "none" THEN "rewire" ELSE "failed"
    /\ op' = Call("__init__", "make_ring")
    /\ UNCHANGED <<node, candidates>>

\* The node the outer loop of rewire() visits next.
NextNode == IF node = None THEN 1 ELSE Val(node) + 1

\* rewire(): the outer loop takes its next node and lists its candidates.
WSRewireNode ==
    /\ pc = "rewire"
    /\ NextNode <= Len(nodes)
    /\ node' = Some(nodes[NextNode])
    /\ candidates' = rewire_candidates(WSSelf, nodes[NextNode])
    /\ pc' = "candidates"
    /\ op' = Call("rewire", "node")
    /\ UNCHANGED <<n, k, b, nodes, edges, neighbors, raised>>
    /\ UNCHANGED WSIdle

\* rewire(): the inner loop visits candidate j.
WSRewireCandidate ==
    /\ pc = "candidates"
    /\ candidates # <<>>
    /\ LET j == Head(candidates)
       IN \E rewire_node \in rewire_draws(b) :
            \E o \in (IF rewire_node
                      THEN find_new_neighbor(WSSelf, Val(node), j)
                      ELSE {Outcome(WSSelf, "none")}) :
                /\ WSBecomes(o)
                /\ pc' = IF o.raised = "none" THEN "candidates" ELSE "failed"
                /\ op' = Call("rewire", IF rewire_node THEN "find_new_neighbor" ELSE "keep")
    /\ candidates' = Tail(candidates)
    /\ UNCHANGED node

\* rewire(): the inner loop is over; self.neighbors[node].sort()
WSRewireSort ==
    /\ pc = "candidates"
    /\ candidates = <<>>
    /\ neighbors' = [neighbors EXCEPT ![Val(node)] = SortedBy(Identity(neighbors[Val(node)]), neighbors[Val(node)])]
    /\ pc' = "rewire"
    /\ op' = Call("rewire", "sort")
    /\ UNCHANGED <<n, k, b, nodes, edges, raised, node, candidates>>
    /\ UNCHANGED WSIdle

\* rewire(): the outer loop is over; the edges are sorted by their first
\* node, and __init__ returns.
WSRewireReturn ==
    /\ pc = "rewire"
    /\ NextNode > Len(nodes)
    /\ edges' = SortedBy(First(edges), edges)
    /\ pc' = "done"
    /\ op' = Call("__init__", "return")
    /\ UNCHANGED <<n, k, b, nodes, neighbors, raised, node, candidates>>
    /\ UNCHANGED WSIdle

NextWS == WSInit \/ WSRewireNode \/ WSRewireCandidate \/ WSRewireSort \/ WSRewireReturn

SpecWS == InitWS /\ [][NextWS]_vars

(***************************************************************************)
(* Properties of Network.                                                  *)
(***************************************************************************)
OutWeightSum(x) == RatSum(edges[x])

\* C1: for every node, the weights of its outgoing edges sum to 1, right
\* after construction and after any sequence of set_focus,
\* select_focus_edge, step and update_focus_weights calls, failed calls
\* included.
C1_OutWeightsSumToOne == \A x \in Range(node_list) : OutWeightSum(x) = RatOne

\* A call has just failed on a graph whose weights were reinforced before.
C1_Witness ==
    /\ raised = "KeyError"
    /\ updates >= 1
    /\ \E x \in Range(node_list) : \E y \in Range(node_list) : edges[x][y] # Rat(1, n)

\* C2: for n >= 2, update_focus_weights() called right after a successful
\* step() completes without error and leaves the weight of the edge the
\* step traversed strictly larger, the source node's out-weights still
\* summing to 1.
C2_StepThenUpdateReinforces ==
    [][(/\ n >= 2
        /\ op.name = "step"
        /\ raised = "none"
        /\ op'.name = "update_focus_weights")
       => (/\ raised' = "none"
           /\ RatLess(edges[walked[1]][walked[2]], edges'[walked[1]][walked[2]])
           /\ RatSum(edges'[walked[1]]) = RatOne)]_vars

\* C3: set_focus(x) with an int x: for x in 1..n the focus becomes x and
\* next_focus and focus_edge are cleared; for any other x the call raises
\* and focus_node stays as it was.
C3_SetFocusExplicitId ==
    [][(op'.name = "set_focus" /\ op'.arg.tag = "int")
       => IF op'.arg.val \in 1..n
          THEN /\ raised' = "none"
               /\ focus_node' = Some(op'.arg.val)
               /\ next_focus' = None
               /\ focus_edge' = None
          ELSE /\ raised' # "none"
               /\ focus_node' = focus_node]_vars

\* C4: select_focus_edge() and step() called with no focus node raise and
\* leave edges, focus_node, next_focus and focus_edge as they were;
\* select_focus_edge() called with a focus node records next_focus, an
\* out-neighbor of the focus node, and focus_edge = (focus_node, next_focus).
C4_SelectFocusEdge ==
    [][/\ (op'.name \in {"select_focus_edge", "step"} /\ focus_node = None)
          => /\ raised' # "none"
             /\ UNCHANGED <<edges, focus_node, next_focus, focus_edge>>
       /\ (op'.name = "select_focus_edge" /\ focus_node # None)
          => /\ raised' = "none"
             /\ next_focus' # None
             /\ Val(next_focus') \in DOMAIN edges[Val(focus_node)]
             /\ focus_edge' = <<Val(focus_node), Val(next_focus')>>
             /\ UNCHANGED <<edges, focus_node>>]_vars

\* select_focus_edge() has just failed for want of a focus node, on a graph
\* on which it succeeded before (a reinforcement needs a selected edge).
C4_Witness ==
    /\ op.name = "select_focus_edge"
    /\ raised = "KeyError"
    /\ focus_node = None
    /\ updates >= 1

(***************************************************************************)
(* Properties of ERNetwork.                                                *)
(***************************************************************************)
Supplied(o) == o # None

\* C8: construction succeeds if and only if exactly one of p and m is
\* supplied, p = 0 and m = 0 counting as supplied; supplying exactly one
\* builds the graph in that mode.  (Stated for n >= 2, where there is a
\* pair to draw.)
C8_ExactlyOneOfPAndM ==
    (pc = "done" /\ n >= 2)
    => /\ (raised = "none") <=> (Supplied(p) # Supplied(m))
       /\ (Supplied(p) /\ ~Supplied(m)) => op.arg = "connect_p"
       /\ (Supplied(m) /\ ~Supplied(p)) => op.arg = "connect_m"

HasDuplicate(es) == \E i \in DOMAIN es : \E j \in DOMAIN es : i # j /\ es[i] = es[j]

MMode == ~TruthyOpt(p) /\ TruthyOpt(m)

\* C9: in m-mode with n >= 2 and m >= 1 the constructor succeeds, also for
\* m larger than C(n,2), and the edge list has exactly m entries, each a
\* pair (a, b) with 1 <= a < b <= n; whenever m >= 2 a result in which a
\* pair occurs twice can be drawn.
C9_MModeDrawsWithReplacement ==
    /\ (pc = "done" /\ MMode /\ n >= 2)
       => /\ raised = "none"
          /\ Len(edges) = Val(m)
          /\ \A i \in DOMAIN edges :
                /\ 1 <= edges[i][1]
                /\ edges[i][1] < edges[i][2]
                /\ edges[i][2] <= n
    /\ (pc = "init" /\ MMode /\ n >= 2 /\ Val(m) >= 2)
       => ENABLED (ERInit /\ HasDuplicate(edges'))

\* m pairs were drawn, one of them twice, although enough distinct pairs
\* existed.
C9_Witness ==
    /\ pc = "done"
    /\ MMode
    /\ raised = "none"
    /\ Val(m) >= 2
    /\ Val(m) <= Len(poss_edges)
    /\ HasDuplicate(edges)

\* More pairs were asked for than exist, and the constructor built the list.
C9_WitnessOverfull ==
    /\ pc = "done"
    /\ MMode
    /\ raised = "none"
    /\ Val(m) > Len(poss_edges)
    /\ Len(edges) = Val(m)

(***************************************************************************)
(* Properties of BANetwork.                                                *)
(***************************************************************************)
RECURSIVE SumDegrees(_, _)
SumDegrees(deg, S) ==
    IF S = {} THEN 0
    ELSE LET x == CHOOSE y \in S : TRUE
         IN deg[x] + SumDegrees(deg, S \ {x})

\* C5: for 1 <= k < n and every outcome of the sampling, the constructed
\* graph has exactly the nodes 1..n, in increasing order of creation,
\* exactly k*(n-k) recorded edges, and degrees that sum to twice the number
\* of recorded edges.
C5_NodeEdgeDegreeCounts ==
    /\ pc # "failed"
    /\ pc = "done"
       => /\ nodes = [i \in 1..n |-> i]
          /\ size = n
          /\ DOMAIN degrees = 1..n
          /\ Len(edges) = k * (n - k)
          /\ SumDegrees(degrees, DOMAIN degrees) = 2 * Len(edges)

\* A graph grown by at least two sampled attachments has been returned.
C5_Witness ==
    /\ pc = "done"
    /\ k >= 2
    /\ n >= k + 3

\* C6: every add_node() attaches the new node to k pairwise distinct
\* nodes: the edge list never holds a pair twice, nor a self-loop.
C6_DistinctTargets ==
    (pc # "init")
    => /\ \A i \in DOMAIN edges : \A j \in DOMAIN edges : edges[i] = edges[j] => i = j
       /\ \A i \in DOMAIN edges : edges[i][1] # edges[i][2]

\* C7: add_first_node() succeeds exactly in the seed state (size = k);
\* add_node() fails exactly in the seed state, so it succeeds only once the
\* first node is attached; a failing call leaves size, nodes, degrees and
\* edges as they were.
C7_OperationOrdering ==
    [][/\ op'.name = "add_first_node"
          => /\ (raised' = "none") <=> (size = k)
             /\ raised' = "none" => size' = k + 1 /\ Len(edges') = k
             /\ raised' # "none" => UNCHANGED <<size, nodes, degrees, edges>>
       /\ op'.name = "add_node"
          => /\ (raised' # "none") <=> (size = k)
             /\ raised' = "none" => /\ size > k
                                    /\ Len(edges) >= k
                                    /\ size' = size + 1
             /\ raised' # "none" => UNCHANGED <<size, nodes, degrees, edges>>]_vars

\* add_first_node() has just been refused on a graph that add_node() has
\* grown past its first node.
C7_Witness ==
    /\ op.name = "add_first_node"
    /\ raised = "ValueError"
    /\ size >= k + 2

\* add_node() has just been refused in the seed state.
C7_WitnessSeed ==
    /\ op.name = "add_node"
    /\ raised = "ValueError"
    /\ size = k
    /\ edges = <<>>

(***************************************************************************)
(* Properties of WSNetwork.                                                *)
(***************************************************************************)
\* The k/2 nearest nodes on each side of v on the circle 1..n.
RingNeighbors(v) ==
    {((v - 1 + d + n) % n) + 1 : d \in {x \in (0 - (k \div 2))..(k \div 2) : x # 0}}

\* make_ring() has just run, or the whole constructor has with b = 0.
RingLattice == \/ pc = "rewire" /\ node = None
               \/ pc = "done" /\ b = 0

EdgeCount(e) == Cardinality({i \in DOMAIN edges : edges[i] = e})

HasRingNeighbors ==
    \A v \in Range(nodes) :
        /\ Len(neighbors[v]) = k
        /\ Range(neighbors[v]) = RingNeighbors(v)

\* C10: in the ring lattice every node has exactly k neighbors, the k/2
\* nearest nodes on each side of the circle, and the edge list records
\* each connected pair exactly once: it holds n*k/2 entries.
C10_RingLatticeEdgesOnce ==
    RingLattice
    => /\ HasRingNeighbors
       /\ \A v \in Range(nodes) : \A w \in RingNeighbors(v) :
             EdgeCount(<<v, w>>) + EdgeCount(<<w, v>>) = 1
       /\ 2 * Len(edges) = n * k

\* The parameters pass the checks of __init__: k even, 0 <= b <= 1, n > k.
ValidRing == k % 2 = 0 /\ b >= 0 /\ b <= 100 /\ n > k

\* The number of entries make_ring() leaves in the edge list.
RingEdgeCount == Len(WSNetwork_init(n, k, b).self.edges)

\* C11: for every even k, n > k (n = k+1 included) and b in [0,1] (b = 1
\* included), rewire() completes and the edge list keeps the length it
\* had after make_ring(); every rewire of (i, j) that fires removes (i, j)
\* and appends (i, new), new being neither i nor a neighbor of i.
C11_RewireKeepsEdgeCount ==
    [][(ValidRing /\ pc \in {"rewire", "candidates"})
       => /\ pc' # "failed"
          /\ raised' = "none"
          /\ Len(edges') = RingEdgeCount
          /\ op'.arg = "find_new_neighbor"
             => \E new \in Range(nodes) \ (Range(neighbors[Val(node)]) \cup {Val(node)}) :
                  /\ edges' = Append(Remove(edges, <<Val(node), Head(candidates)>>),
                                     <<Val(node), new>>)
                  /\ neighbors'[Val(node)] =
                        Append(Remove(neighbors[Val(node)], Head(candidates)), new)]_vars

\* The number of entries of the edge list that end in v.
EdgesInto(v) == Cardinality({i \in DOMAIN edges : edges[i][2] = v})

\* C12: in the finished graph, for every b, j is a neighbor of i exactly
\* when i is a neighbor of j, (i, j) is an edge exactly when (j, i) is, and
\* every node has as many neighbors as there are edges that end in it.
C12_NeighborsSymmetric ==
    (pc = "done")
    => /\ \A i \in Range(nodes) : \A j \in Range(nodes) :
             /\ (j \in Range(neighbors[i])) <=> (i \in Range(neighbors[j]))
             /\ (<<i, j>> \in Range(edges)) <=> (<<j, i>> \in Range(edges))
       /\ \A v \in Range(nodes) : Len(neighbors[v]) = EdgesInto(v)

(***************************************************************************)
(* Properties of the walk state of Network.                                *)
(***************************************************************************)
\* C13: after every set_focus() (no argument, "next" or an id) and every
\* step() that returns without error, focus_node is one of the nodes 1..n;
\* set_focus("next") never makes an unset next_focus the focus node.
C13_FocusIsANode ==
    (op.name \in {"set_focus", "step"} /\ raised = "none")
    => /\ focus_node # None
       /\ Val(focus_node) \in 1..n

====
